---------------------------- MODULE Spec2Model ----------------------------
(***************************************************************************)
(* A-Eye: the voice session loop of main.py (start) together with the      *)
(* feature handlers it dispatches to and the object-recognition follow-up  *)
(* sub-session of modules/object_recognizer.py.                            *)
(*                                                                         *)
(* Python strings are TLA+ strings (TLC evaluates Len, SubSeq and \o on    *)
(* them), so `in` is real substring containment and str.lower() is a real  *)
(* per-character conversion.                                               *)
(***************************************************************************)
EXTENDS Integers, Sequences, FiniteSets, TLC

VARIABLES pc, stack, user_talk, events, context, user_query, servo_reply,
          cam_pc, cam_caller, cam_trace, cam_result, cam_calls,
          log_exists, face_log, face_files, face_last, face_steps,
          video_pc, capture_pc, describe_pc, frame_queue, frame_count,
          enqueued, dequeued, pdf_pages, pdf_written,
          gen_pc, gen_args, gen_trace

\* the state of the voice session
session == <<pc, stack, user_talk, events, context, user_query, servo_reply>>
\* the state of one capture of a frame
camera == <<cam_pc, cam_caller, cam_trace, cam_result, cam_calls>>
\* the face registration log, the image files, the last face operation and the
\* steps it took
facelog == <<log_exists, face_log, face_files, face_last, face_steps>>
\* the batch video analysis: the three threads, the queue between them, the PDF
video == <<video_pc, capture_pc, describe_pc, frame_queue, frame_count,
           enqueued, dequeued, pdf_pages, pdf_written>>
\* generate_contextual_response taken alone: the call in progress, the calls made
responder == <<gen_pc, gen_args, gen_trace>>
\* the state of the utilities that run outside the voice session
utilities == <<camera, facelog, video, responder>>

vars == <<session, utilities>>

(***************************************************************************)
(* Bounds of the model.                                                    *)
(***************************************************************************)
\* longest utterance, in vocabulary words, that the user speaks at top level
MaxWords == 2
\* most non-exit turns of one follow-up sub-session (the code has no limit)
MaxTurns == 2
\* most frames the handlers ask the cameras for
MaxCalls == 2
\* most lines the face registration log grows to
MaxLog == 2
\* most frames the video capture loop reads before it is stopped
MaxFrames == 3
\* frame_interval of the video capture loop: every how many frames one is enqueued
FrameInterval == 2

(***************************************************************************)
(* Python values.                                                          *)
(***************************************************************************)
\* Python's None: a value different from every string the model uses
None == "<None>"
\* an exception raised by a boundary call (remote model, file, SMS)
Raise == "<raise>"

\* a truth test that only rejects None (a plausible slip for `if x:`)
TruthyNotNone(v) == v # None
\* Python truthiness of an Optional[str]: `if v:`
Truthy(v) == v # None /\ v # ""

\* str.lower() on one character (the capitals the vocabulary uses)
LowerChar(c) ==
    CASE c = "E" -> "e" [] c = "X" -> "x" [] c = "I" -> "i" [] c = "T" -> "t"
      [] c = "S" -> "s" [] c = "O" -> "o" [] c = "H" -> "h" [] c = "L" -> "l"
      [] c = "P" -> "p" [] c = "W" -> "w" [] c = "A" -> "a" [] c = "D" -> "d"
      [] OTHER -> c
RECURSIVE Lower(_)
\* str.lower()
Lower(s) ==
    IF Len(s) = 0 THEN ""
    ELSE LowerChar(SubSeq(s, 1, 1)) \o Lower(SubSeq(s, 2, Len(s)))

\* whole-word matching instead of substring matching
ContainsWord(sub, s) ==
    \E i \in 0..(Len(s) - Len(sub)) :
        /\ SubSeq(s, i + 1, i + Len(sub)) = sub
        /\ (IF i = 0 THEN TRUE ELSE SubSeq(s, i, i) = " ")
        /\ (IF i + Len(sub) = Len(s) THEN TRUE
            ELSE SubSeq(s, i + Len(sub) + 1, i + Len(sub) + 1) = " ")
\* Python's `sub in s` on strings
Contains(sub, s) ==
    \E i \in 0..(Len(s) - Len(sub)) : SubSeq(s, i + 1, i + Len(sub)) = sub

\* keyword matching on the lowercased utterance
AnyWordInFolded(trigger, s) == \E k \in 1..Len(trigger) : Contains(trigger[k], Lower(s))
\* any(word in user_talk for word in trigger)
AnyWordIn(trigger, s) == \E k \in 1..Len(trigger) : Contains(trigger[k], s)

(***************************************************************************)
(* main.py: the trigger lists and the order of the checks.                 *)
(***************************************************************************)
scene_trigger == <<"scene", "describe", "description", "seeing", "see">>
sensory_trigger == <<"sensory", "search", "holding", "buy">>
ocr_trigger == <<"read", "book", "notice", "pamphlet">>
sos_trigger == <<"sos", "emergency", "help">>
face_trigger == <<"face", "recognize", "register">>
nav_trigger == <<"navigation", "route", "navigate", "path", "show me route", "show me">>

\* the SOS check placed after the navigation check
OrderNavBeforeSos == <<"scene", "object", "ocr", "nav", "sos", "face", "exit">>
\* the exit check placed before the feature checks
OrderExitFirst == <<"exit", "scene", "object", "ocr", "sos", "nav", "face">>
\* the textual order of the independent `if` statements of start()
Order == <<"scene", "object", "ocr", "sos", "nav", "face", "exit">>

\* the statement reached when check c falls through
Succ(c) ==
    LET i == CHOOSE k \in 1..Len(Order) : Order[k] = c
    IN  IF i = Len(Order) THEN "loop" ELSE Order[i + 1]

\* the follow-up session's return ending the iteration of the loop
AfterFollowUpLoop == "loop"
\* the follow-up session's exit ending the whole session
AfterFollowUpTerminated == "terminated"
\* where start() continues when handle_follow_up_queries returns
AfterFollowUp == Succ("object")

(***************************************************************************)
(* The observable trace of one cycle of the loop.                          *)
(***************************************************************************)
\* speak_text(t) called by function fn
Speak(fn, t) == [op |-> "speak", fn |-> fn, text |-> t, angle |-> 0]
\* set_servo_angle(a) called by function fn
Servo(fn, a) == [op |-> "servo", fn |-> fn, text |-> "", angle |-> a]
\* function fn calls its get_frame()
Capture(fn) == [op |-> "capture", fn |-> fn, text |-> "", angle |-> 0]
\* get_voice_input() returned t to function fn
Hear(fn, t) == [op |-> "hear", fn |-> fn, text |-> t, angle |-> 0]
\* function fn is invoked
Call(fn) == [op |-> "call", fn |-> fn, text |-> "", angle |-> 0]
\* function fn returned v
Return(fn, v) == [op |-> "return", fn |-> fn, text |-> v, angle |-> 0]
\* generate_contextual_response(_, ctx) is invoked
Generate(ctx) ==
    [op |-> "generate", fn |-> "generate_contextual_response", text |-> ctx, angle |-> 0]

(***************************************************************************)
(* The environment: what the user says, what the devices and services      *)
(* answer.                                                                 *)
(***************************************************************************)
Vocab == {"research", "bread", "help", "exit"}

RECURSIVE JoinWords(_)
JoinWords(ws) ==
    IF Len(ws) = 1 THEN ws[1] ELSE ws[1] \o " " \o JoinWords(Tail(ws))

\* what get_voice_input can return at top level
Transcripts ==
    {None, ""}
    \cup {JoinWords(ws) : ws \in UNION {[1..n -> Vocab] : n \in 1..MaxWords}}
    \cup {"can you describe the scene", "help sos emergency exit", "showcase", "SOS",
          "hello", "pathway", "face", "Exit", "search Exit", "describe", "Describe", "search and read then navigate",
          "describe scene search book sos help route register exit"}

\* what get_voice_input can return inside the follow-up sub-session
FollowUpTranscripts == {None, "Help me buy it", "exit", "Exit and help"}

\* what the spoken name can be in register_new_face
NameTranscripts == {None, "Alice"}
\* what input(...).strip() can yield in register_new_face
ManualNames == {"", "Bob", Raise}

\* what the ESP32 answers to the servo request: the status code, or the request raising
ServoReplies == {"200", "404", Raise}
\* iot_controller.set_servo_angle: True on status 200, False otherwise
set_servo_angle(reply) == reply = "200"

\* iot_controller.get_frame: the network camera first, the local camera as fallback
get_frame(esp, local) ==
    IF esp = "frame" THEN "frame"
    ELSE IF local = "frame" THEN "frame" ELSE None
EspOutcomes == {"frame", "undecodable", "throws", "timeout"}
LocalOutcomes == {"frame", "not_opened", "read_failed", "throws"}
\* the frames iot_controller.get_frame can return
Frames == {get_frame(e, l) : e \in EspOutcomes, l \in LocalOutcomes}
\* face_recognition.get_frame: the local camera only
face_get_frame(local) == IF local = "frame" THEN "frame" ELSE None
FaceFrames == {face_get_frame(l) : l \in LocalOutcomes}

\* response.text of the remote model, or the call raising
ModelReplies == {Raise, "", "a red mug on a desk"}
\* response.text of the remote model for a follow-up question, or the call raising
AnswerReplies == {Raise, "it holds about 300 ml"}
\* the vision model's reply to the text-extraction prompt
OcrReplies == ModelReplies \cup {"no text"}

\* message.sid of a created Twilio message: "SM" and 32 hexadecimal digits
MessageSids == {"SM9f3c1a7e5b2d4f6081a2b3c4d5e6f708"}
\* str(e) of the exception client.messages.create raises
TwilioErrors ==
    {"HTTPSConnectionPool: Max retries exceeded",
     "HTTP 401 error: POST /Accounts/Enter TWILIO_ACCOUNT_SID here/Messages.json"}

(***************************************************************************)
(* The handlers, as functions of what the environment answers.             *)
(***************************************************************************)
\* the handler pattern without its `except Exception:` clause
describe_unguarded(frame, reply) ==
    IF frame = None THEN None ELSE reply
\* a handler of the pattern: frame, remote model, return response.text
describe(frame, reply) ==
    IF frame = None THEN None
    ELSE IF reply = Raise THEN None ELSE reply

analyze_scene(frame, reply) == describe(frame, reply)
recognize_object(frame, reply) == describe(frame, reply)
\* a navigation handler returning a summary other than the text it spoke
analyze_environment_summary(frame, reply) ==
    IF describe(frame, reply) = None THEN None ELSE "destinations: " \o reply
analyze_environment(frame, reply) == describe(frame, reply)

extract_text_from_image(frame, encoded, reply) ==
    IF frame = None THEN None
    ELSE IF ~encoded THEN None
    ELSE IF reply = Raise THEN None ELSE reply

send_sos_message(created) ==
    IF created \in MessageSids THEN created
    ELSE "Failed to send SOS message: " \o created

register_new_face(frame, faces, voice, manual, saved) ==
    IF frame = None THEN None
    ELSE IF faces = 0 THEN None
    ELSE IF Truthy(voice) THEN (IF saved THEN voice ELSE None)
    ELSE IF manual = Raise THEN None
    ELSE IF ~Truthy(manual) THEN None
    ELSE IF saved THEN manual ELSE None

\* a generate_contextual_response that apologises in the same words whether the
\* context is missing or the model call failed
contextual_response_one_apology(user_input, ctx, reply) ==
    IF Truthy(ctx) /\ reply # Raise THEN reply
    ELSE "Sorry, I couldn't process your request."
\* generate_contextual_response(user_input, ctx), reply being response.text of the
\* remote model or the call raising
contextual_response(user_input, ctx, reply) ==
    IF Truthy(ctx)
    THEN IF reply = Raise THEN "Sorry, I couldn't process your request." ELSE reply
    ELSE "There is no context available to respond to your question."

\* what generate_contextual_response(user_input, ctx) can return
generate_contextual_response(user_input, ctx) ==
    {contextual_response(user_input, ctx, r) : r \in AnswerReplies}

(***************************************************************************)
(* start(): the session loop.                                              *)
(***************************************************************************)
Init ==
    /\ pc = "start"
    /\ stack = <<"start">>
    /\ user_talk = None
    /\ events = <<>>
    /\ context = None
    /\ user_query = None
    /\ servo_reply = None
    /\ cam_pc = "idle"
    /\ cam_caller = None
    /\ cam_trace = <<>>
    /\ cam_result = None
    /\ cam_calls = 0
    /\ log_exists = FALSE
    /\ face_log = <<>>
    /\ face_files = {}
    /\ face_last = [op |-> "none", name |-> None, ret |-> None]
    /\ face_steps = <<>>
    /\ video_pc = "idle"
    /\ capture_pc = "idle"
    /\ describe_pc = "idle"
    /\ frame_queue = <<>>
    /\ frame_count = 0
    /\ enqueued = <<>>
    /\ dequeued = <<>>
    /\ pdf_pages = <<>>
    /\ pdf_written = FALSE
    /\ gen_pc = "idle"
    /\ gen_args = None
    /\ gen_trace = <<>>

\* the outer loop's prologue
Start ==
    /\ pc = "start"
    /\ events' = <<Speak("start", "Start to speak")>>
    /\ pc' = "listen"
    /\ UNCHANGED <<stack, user_talk, context, user_query, servo_reply, utilities>>

\* user_talk = get_voice_input(); if user_talk: ... else: speak_text("No Input")
GetVoiceInput ==
    /\ pc = "listen"
    /\ stack = <<"start">>
    /\ \E t \in Transcripts :
        /\ user_talk' = t
        /\ IF Truthy(t)
           THEN /\ events' = <<Hear("start", t)>>
                /\ pc' = Order[1]
           ELSE /\ events' = <<Hear("start", t), Speak("start", "No Input")>>
                /\ pc' = "loop"
    /\ UNCHANGED <<stack, context, user_query, servo_reply, utilities>>

\* the back edge of the inner `while True:`; the trace of the next cycle starts empty
LoopBack ==
    /\ pc = "loop"
    /\ pc' = "listen"
    /\ events' = <<>>
    /\ UNCHANGED <<stack, user_talk, context, user_query, servo_reply, utilities>>

\* a dispatch that calls the handler only when the servo request succeeded
CheckBlocking(c, trigger, pre, handler) ==
    /\ pc = c
    /\ stack = <<"start">>
    /\ IF AnyWordIn(trigger, user_talk)
       THEN \E reply \in (IF pre = <<>> THEN {None} ELSE ServoReplies) :
              /\ servo_reply' = reply
              /\ IF pre = <<>> \/ set_servo_angle(reply)
                 THEN /\ events' = events \o pre \o <<Call(handler)>>
                      /\ stack' = <<"start", handler>>
                      /\ pc' = pc
                 ELSE /\ events' = events \o pre
                      /\ pc' = Succ(c)
                      /\ UNCHANGED stack
       ELSE /\ pc' = Succ(c)
            /\ UNCHANGED <<events, stack, servo_reply>>
    /\ UNCHANGED <<user_talk, context, user_query, utilities>>

\* one `if any(word in user_talk for word in trigger):`, the servo request of its
\* block (pre, its answer dropped) and the call of the handler
Check(c, trigger, pre, handler) ==
    /\ pc = c
    /\ stack = <<"start">>
    /\ IF AnyWordIn(trigger, user_talk)
       THEN /\ servo_reply' \in (IF pre = <<>> THEN {None} ELSE ServoReplies)
            /\ events' = events \o pre \o <<Call(handler)>>
            /\ stack' = <<"start", handler>>
            /\ pc' = pc
       ELSE /\ pc' = Succ(c)
            /\ UNCHANGED <<events, stack, servo_reply>>
    /\ UNCHANGED <<user_talk, context, user_query, utilities>>

\* handler returns to start(), which goes on to the next check
Back(c, evs) ==
    /\ events' = events \o evs
    /\ stack' = <<"start">>
    /\ pc' = Succ(c)
    /\ servo_reply' = None
    /\ UNCHANGED <<user_talk, context, user_query, utilities>>

SceneTrigger ==
    Check("scene", scene_trigger, <<Servo("start", 115)>>, "analyze_scene")

\* a scene step that says nothing when the handler returned no narrative
AnalyzeSceneSilent ==
    /\ stack = <<"start", "analyze_scene">>
    /\ \E frame \in Frames, reply \in ModelReplies :
        LET scene_description == analyze_scene(frame, reply)
        IN  Back("scene",
                 <<Servo("analyze_scene", 115), Capture("analyze_scene"),
                   Return("analyze_scene", scene_description)>>
                 \o (IF Truthy(scene_description)
                     THEN <<Speak("start", scene_description)>> ELSE <<>>))

AnalyzeScene ==
    /\ stack = <<"start", "analyze_scene">>
    /\ \E frame \in Frames, reply \in ModelReplies :
        LET scene_description == analyze_scene(frame, reply)
        IN  Back("scene",
                 <<Servo("analyze_scene", 115), Capture("analyze_scene"),
                   Return("analyze_scene", scene_description),
                   Speak("start", IF Truthy(scene_description)
                                  THEN scene_description
                                  ELSE "Failed to analyze scene")>>)

ObjectTrigger ==
    Check("object", sensory_trigger, <<>>, "recognize_object")

\* `if object_info:` always taken
EntersFollowUpAlways(object_info) == TRUE
\* `if object_info:` of start()
EntersFollowUp(object_info) == Truthy(object_info)

RecognizeObject ==
    /\ stack = <<"start", "recognize_object">>
    /\ \E frame \in Frames, reply \in ModelReplies :
        LET object_info == recognize_object(frame, reply)
            spoken == IF frame # None /\ reply # Raise
                      THEN <<Speak("recognize_object", reply)>> ELSE <<>>
        IN  IF EntersFollowUp(object_info)
            THEN /\ events' = events \o <<Capture("recognize_object")>> \o spoken
                                \o <<Return("recognize_object", object_info),
                                     Call("handle_follow_up_queries")>>
                 /\ stack' = <<"start", "handle_follow_up_queries">>
                 /\ context' = object_info
                 /\ UNCHANGED <<pc, user_talk, user_query, servo_reply, utilities>>
            ELSE Back("object",
                      <<Capture("recognize_object")>> \o spoken
                      \o <<Return("recognize_object", object_info),
                                  Speak("start", "Failed to recognize object")>>)

(***************************************************************************)
(* handle_follow_up_queries(context): the follow-up sub-session.           *)
(***************************************************************************)
FollowUpPrompt ==
    Speak("handle_follow_up_queries", "You can ask follow-up questions or say 'exit' to end.")

\* the prompts spoken so far in this sub-session
Turns == Len(SelectSeq(events, LAMBDA e : e = FollowUpPrompt))

\* the context replaced by the last answer
NextContextAnswer(ctx, response) == response
\* the loop never assigns its parameter
NextContext(ctx, response) == ctx

\* an answering turn that also dispatches the SOS feature on its keywords
AnswerEventsDispatching(q, ctx, response) ==
    <<FollowUpPrompt, Hear("handle_follow_up_queries", q), Generate(ctx),
      Speak("handle_follow_up_queries", response)>>
    \o (IF AnyWordIn(sos_trigger, Lower(q)) THEN <<Call("send_sos_message")>> ELSE <<>>)
\* what an answering turn of the sub-session does, q being what was heard
AnswerEvents(q, ctx, response) ==
    <<FollowUpPrompt, Hear("handle_follow_up_queries", q), Generate(ctx),
      Speak("handle_follow_up_queries", response)>>

FollowUpExit ==
    /\ stack = <<"start", "handle_follow_up_queries">>
    /\ \E q \in FollowUpTranscripts :
        /\ Truthy(q)
        /\ Contains("exit", Lower(q))
        /\ events' = events \o <<FollowUpPrompt, Hear("handle_follow_up_queries", q),
                                 Speak("handle_follow_up_queries", "Exiting follow-up session."),
                                 Return("handle_follow_up_queries", None)>>
    /\ stack' = <<"start">>
    /\ pc' = AfterFollowUp
    /\ context' = None
    /\ user_query' = None
    /\ UNCHANGED <<user_talk, servo_reply, utilities>>

FollowUpAnswer ==
    /\ stack = <<"start", "handle_follow_up_queries">>
    /\ Turns < MaxTurns
    /\ \E q \in FollowUpTranscripts :
        /\ Truthy(q)
        /\ ~Contains("exit", Lower(q))
        /\ \E response \in generate_contextual_response(Lower(q), context) :
            /\ events' = events \o AnswerEvents(q, context, response)
            /\ context' = NextContext(context, response)
        /\ user_query' = Lower(q)
    /\ UNCHANGED <<pc, stack, user_talk, servo_reply, utilities>>

\* a sub-session that gives up after a failed transcription
FollowUpRetryGivesUp ==
    /\ stack = <<"start", "handle_follow_up_queries">>
    /\ Turns < MaxTurns
    /\ \E q \in FollowUpTranscripts :
        /\ ~Truthy(q)
        /\ events' = events \o <<FollowUpPrompt, Hear("handle_follow_up_queries", q),
                                 Speak("handle_follow_up_queries",
                                       "No valid input detected. Please try again or say 'exit' to end."),
                                 Return("handle_follow_up_queries", None)>>
    /\ stack' = <<"start">>
    /\ pc' = AfterFollowUp
    /\ context' = None
    /\ user_query' = None
    /\ UNCHANGED <<user_talk, servo_reply, utilities>>

FollowUpRetry ==
    /\ stack = <<"start", "handle_follow_up_queries">>
    /\ Turns < MaxTurns
    /\ \E q \in FollowUpTranscripts :
        /\ ~Truthy(q)
        /\ events' = events \o <<FollowUpPrompt, Hear("handle_follow_up_queries", q),
                                 Speak("handle_follow_up_queries",
                                       "No valid input detected. Please try again or say 'exit' to end.")>>
        /\ user_query' = q
    /\ UNCHANGED <<pc, stack, user_talk, context, servo_reply, utilities>>

(***************************************************************************)
(* start(), continued.                                                     *)
(***************************************************************************)
OcrTrigger ==
    Check("ocr", ocr_trigger, <<Servo("start", 115)>>, "extract_text_from_image")

\* a "no text" reply treated as a failed extraction
ExtractFailedNoText(extracted_text) == ~Truthy(extracted_text) \/ extracted_text = "no text"
\* `if not extracted_text:` of start()
ExtractFailed(extracted_text) == ~Truthy(extracted_text)

ExtractText ==
    /\ stack = <<"start", "extract_text_from_image">>
    /\ \E frame \in Frames, encoded \in BOOLEAN, reply \in OcrReplies :
        LET extracted_text == extract_text_from_image(frame, encoded, reply)
            spoken == IF frame # None /\ encoded /\ reply # Raise
                      THEN <<Speak("extract_text_from_image", reply)>> ELSE <<>>
        IN  Back("ocr",
                 <<Capture("extract_text_from_image")>> \o spoken
                 \o <<Return("extract_text_from_image", extracted_text)>>
                 \o (IF ExtractFailed(extracted_text)
                     THEN <<Speak("start", "Failed to extract text from image")>>
                     ELSE <<>>))

SosTrigger ==
    Check("sos", sos_trigger, <<>>, "send_sos_message")

SendSos ==
    /\ stack = <<"start", "send_sos_message">>
    /\ \E created \in MessageSids \cup TwilioErrors :
        LET result == send_sos_message(created)
        IN  Back("sos",
                 <<Return("send_sos_message", result),
                   Speak("start", IF Contains("SID", result)
                                  THEN "SOS message sent successfully"
                                  ELSE "Failed to send SOS message")>>)

NavTrigger ==
    Check("nav", nav_trigger, <<Servo("start", 90)>>, "analyze_environment")

AnalyzeEnvironment ==
    /\ stack = <<"start", "analyze_environment">>
    /\ \E frame \in Frames, reply \in ModelReplies :
        LET navigation_info == analyze_environment(frame, reply)
            spoken == IF frame # None /\ reply # Raise
                      THEN <<Speak("analyze_environment", reply)>> ELSE <<>>
        IN  Back("nav",
                 <<Servo("analyze_environment", 90), Capture("analyze_environment")>> \o spoken
                 \o <<Return("analyze_environment", navigation_info)>>
                 \o (IF ~Truthy(navigation_info)
                     THEN <<Speak("start", "Failed to analyze environment for navigation")>>
                     ELSE <<>>))

FaceTrigger ==
    Check("face", face_trigger, <<Servo("start", 90)>>, "register_new_face")

RegisterNewFace ==
    /\ stack = <<"start", "register_new_face">>
    /\ \E frame \in FaceFrames, faces \in {0, 1}, voice \in NameTranscripts,
          manual \in ManualNames, saved \in BOOLEAN :
        LET detected_name == register_new_face(frame, faces, voice, manual, saved)
            heard == IF frame # None /\ faces # 0
                     THEN <<Hear("register_new_face", voice)>> ELSE <<>>
        IN  Back("face",
                 <<Capture("register_new_face")>> \o heard
                 \o <<Return("register_new_face", detected_name),
                            Speak("start", IF Truthy(detected_name)
                                           THEN "Face registered as " \o detected_name
                                           ELSE "Face registration failed.")>>)

\* an exit check that lowercases the utterance as the follow-up loop does
ExitCheckFolded ==
    /\ pc = "exit"
    /\ stack = <<"start">>
    /\ IF Contains("exit", Lower(user_talk))
       THEN /\ events' = events \o <<Speak("start", "Exiting now.")>>
            /\ pc' = "terminated"
            /\ stack' = <<>>
       ELSE /\ pc' = Succ("exit")
            /\ UNCHANGED <<events, stack>>
    /\ UNCHANGED <<user_talk, context, user_query, servo_reply, utilities>>

\* if "exit" in user_talk: speak_text("Exiting now."); return
ExitCheck ==
    /\ pc = "exit"
    /\ stack = <<"start">>
    /\ IF Contains("exit", user_talk)
       THEN /\ events' = events \o <<Speak("start", "Exiting now.")>>
            /\ pc' = "terminated"
            /\ stack' = <<>>
       ELSE /\ pc' = Succ("exit")
            /\ UNCHANGED <<events, stack>>
    /\ UNCHANGED <<user_talk, context, user_query, servo_reply, utilities>>

Next ==
    \/ Start
    \/ GetVoiceInput
    \/ LoopBack
    \/ SceneTrigger
    \/ AnalyzeScene
    \/ ObjectTrigger
    \/ RecognizeObject
    \/ FollowUpExit
    \/ FollowUpAnswer
    \/ FollowUpRetry
    \/ OcrTrigger
    \/ ExtractText
    \/ SosTrigger
    \/ SendSos
    \/ NavTrigger
    \/ AnalyzeEnvironment
    \/ FaceTrigger
    \/ RegisterNewFace
    \/ ExitCheck

Spec == Init /\ [][Next]_vars

(***************************************************************************)
(* The capture of one frame: iot_controller.get_frame, which the scene,    *)
(* object, text and navigation handlers call, and the get_frame of         *)
(* face_recognition, which register_new_face calls.                        *)
(***************************************************************************)
\* the handlers that capture a frame
FrameUsers ==
    {"analyze_scene", "recognize_object", "extract_text_from_image",
     "analyze_environment", "register_new_face"}

\* the camera the get_frame of handler h tries first
FirstCamera(h) == IF h = "register_new_face" THEN "local" ELSE "esp"

\* one attempt on a camera and what came of it
Attempt(device, outcome) == [device |-> device, outcome |-> outcome]

\* a get_frame that gives up when the network image cannot be decoded
AfterEspNoFallback(outcome) ==
    IF outcome \in {"frame", "undecodable"} THEN "done" ELSE "local"
\* iot_controller.get_frame after the network camera: `if frame is not None: return
\* frame`, the local webcam otherwise
AfterEsp(outcome) == IF outcome = "frame" THEN "done" ELSE "local"

\* a handler calls its get_frame
CamCall ==
    /\ cam_pc = "idle"
    /\ cam_calls < MaxCalls
    /\ \E h \in FrameUsers :
          /\ cam_caller' = h
          /\ cam_pc' = FirstCamera(h)
    /\ cam_trace' = <<>>
    /\ cam_result' = None
    /\ UNCHANGED <<cam_calls, session, facelog, video, responder>>

\* urlopen(ESP32_CAM_URL, timeout=5), read, imdecode
EspAttempt ==
    /\ cam_pc = "esp"
    /\ \E outcome \in EspOutcomes :
          /\ cam_trace' = Append(cam_trace, Attempt("esp", outcome))
          /\ cam_pc' = AfterEsp(outcome)
          /\ cam_result' = IF outcome = "frame" THEN "frame" ELSE None
    /\ UNCHANGED <<cam_caller, cam_calls, session, facelog, video, responder>>

\* cv2.VideoCapture, isOpened, read, release
LocalAttempt ==
    /\ cam_pc = "local"
    /\ \E outcome \in LocalOutcomes :
          /\ cam_trace' = Append(cam_trace, Attempt("local", outcome))
          /\ cam_result' = IF outcome = "frame" THEN "frame" ELSE None
    /\ cam_pc' = "done"
    /\ UNCHANGED <<cam_caller, cam_calls, session, facelog, video, responder>>

\* get_frame returns cam_result to the handler
CamReturn ==
    /\ cam_pc = "done"
    /\ cam_pc' = "idle"
    /\ cam_calls' = cam_calls + 1
    /\ UNCHANGED <<cam_caller, cam_trace, cam_result, session, facelog, video, responder>>

CameraNext ==
    \/ CamCall
    \/ EspAttempt
    \/ LocalAttempt
    \/ CamReturn

CameraSpec == Init /\ [][CameraNext]_vars

(***************************************************************************)
(* generate_contextual_response of modules/object_recognizer.py taken      *)
(* alone, on every context a caller can pass, the missing one included.    *)
(***************************************************************************)
\* the follow-up questions passed as user_input
GenInputs == {"help me buy it", "what colour is it"}
\* the contexts passed: None, the empty string, a recognition result
GenContexts == {None, "", "a red mug on a desk", "a blue pen"}

\* one finished call of generate_contextual_response
GenRecord(args, reply, result) ==
    [user_input |-> args.user_input, ctx |-> args.ctx, reply |-> reply, result |-> result]

\* generate_contextual_response(user_input, ctx) is called
GenCall ==
    /\ gen_pc = "idle"
    /\ Len(gen_trace) < MaxCalls
    /\ \E user_input \in GenInputs, ctx \in GenContexts :
          gen_args' = [user_input |-> user_input, ctx |-> ctx]
    /\ gen_pc' = "called"
    /\ UNCHANGED <<gen_trace, session, camera, facelog, video>>

\* the body runs: the model is asked only when the context is truthy (reply is None
\* when it was not asked), and the function returns
GenReturn ==
    /\ gen_pc = "called"
    /\ \E reply \in (IF Truthy(gen_args.ctx) THEN AnswerReplies ELSE {None}) :
          gen_trace' = Append(gen_trace,
                GenRecord(gen_args, reply,
                          contextual_response(gen_args.user_input, gen_args.ctx, reply)))
    /\ gen_pc' = "idle"
    /\ gen_args' = None
    /\ UNCHANGED <<session, camera, facelog, video>>

ResponseNext ==
    \/ GenCall
    \/ GenReturn

ResponseSpec == Init /\ [][ResponseNext]_vars

(***************************************************************************)
(* The face registration log of modules/face_recognition.py: the file      *)
(* face_log.txt, one line per registration, and the saved images.          *)
(***************************************************************************)
\* str.strip(): the whitespace at both ends removed
IsSpace(c) == c \in {" ", "\n", "\t"}

RECURSIVE Strip(_)
Strip(str) ==
    IF str = "" THEN ""
    ELSE IF IsSpace(SubSeq(str, 1, 1)) THEN Strip(SubSeq(str, 2, Len(str)))
    ELSE IF IsSpace(SubSeq(str, Len(str), Len(str))) THEN Strip(SubSeq(str, 1, Len(str) - 1))
    ELSE str

\* the position of the first comma of str, 0 when it has none
FirstComma(str) ==
    IF \E i \in 1..Len(str) : SubSeq(str, i, i) = ","
    THEN CHOOSE i \in 1..Len(str) :
            /\ SubSeq(str, i, i) = ","
            /\ \A j \in 1..(i - 1) : SubSeq(str, j, j) # ","
    ELSE 0

\* name, file_path = line.strip().split(",", 1): the name and the path, stripped
ParsedName(text) ==
    LET str == Strip(text) IN Strip(SubSeq(str, 1, FirstComma(str) - 1))
ParsedPath(text) ==
    LET str == Strip(text) IN Strip(SubSeq(str, FirstComma(str) + 1, Len(str)))

\* `if line.strip():`
NonBlank(text) == Strip(text) # ""
\* a split whose unpacking never raises
UnparsableNever(text) == FALSE
\* the unpacking of split(",", 1) raises ValueError on a line without a comma
Unparsable(text) == NonBlank(text) /\ FirstComma(Strip(text)) = 0

\* time.strftime("%Y%m%d_%H%M%S") at the time of a registration
Timestamps == {"20240101_090000"}
\* os.path.join(FACE_OUTPUT_DIR, f"{person_name}_{timestamp}.jpg")
OutputPath(person_name, timestamp) ==
    "known_image/" \o person_name \o "_" \o timestamp \o ".jpg"
\* a log line written without its line terminator
LogLineUnterminated(person_name, output_path) == person_name \o ", " \o output_path
\* f"{person_name}, {output_path}\n"
LogLine(person_name, output_path) == person_name \o ", " \o output_path \o "\n"

\* a line of the log: its text, and the name it was registered under
Registration(person_name, output_path) ==
    [name |-> person_name, text |-> LogLine(person_name, output_path)]

\* the names get_voice_input and input() yield in register_new_face
LogVoiceNames == {None, "Alice", "Bob"}
LogManualNames == {"", "Doe, Jane", Raise}
\* how saving the image and appending to the log can end
WriteOutcomes == {"ok", "imwrite_false", "imwrite_raises", "log_raises"}
\* the names delete_face_registration is called with
DeleteNames == {"Alice", "Doe, Jane", "Doe", "Carol"}
\* how removing the images and rewriting the log can end
DeleteOutcomes == {"ok", "unlink_raises", "write_raises"}

\* one call register_new_face makes, and what it gave
Step(call, out) == [call |-> call, out |-> out]

\* a register_new_face that asks for the name before it looks for a face
RegisterStepsNameFirst(frame, faces, voice, manual, write) ==
    <<Step("get_frame", frame)>>
    \o (IF frame = None THEN <<>>
        ELSE <<Step("get_voice_input", voice)>>
             \o (IF Truthy(voice) THEN <<>> ELSE <<Step("input", manual)>>)
             \o <<Step("detect_faces", ToString(faces))>>)
\* the calls of one register_new_face() in their order: the frame, the face
\* detection, the spoken name, the typed name, the image file, the log line
RegisterSteps(frame, faces, voice, manual, write) ==
    <<Step("get_frame", frame)>>
    \o (IF frame = None THEN <<>>
        ELSE <<Step("detect_faces", ToString(faces))>>
             \o (IF faces = 0 THEN <<>>
                 ELSE <<Step("get_voice_input", voice)>>
                      \o (IF Truthy(voice) THEN <<>> ELSE <<Step("input", manual)>>)
                      \o (IF ~Truthy(voice) /\ (manual = Raise \/ ~Truthy(manual)) THEN <<>>
                          ELSE <<Step("imwrite", IF write = "imwrite_raises" THEN Raise
                                                 ELSE IF write = "imwrite_false" THEN "False"
                                                 ELSE "True")>>
                               \o (IF write = "imwrite_raises" THEN <<>>
                                   ELSE <<Step("write", IF write = "log_raises"
                                                        THEN Raise ELSE "ok")>>))))

\* register_new_face(): the image file, the log line and the returned name
FaceRegister ==
    /\ Len(face_log) < MaxLog
    /\ \E frame \in FaceFrames, faces \in {0, 1}, voice \in LogVoiceNames,
          manual \in LogManualNames, write \in WriteOutcomes, timestamp \in Timestamps :
        LET person_name == IF Truthy(voice) THEN voice ELSE manual
            named == /\ frame # None
                     /\ faces # 0
                     /\ (Truthy(voice) \/ (manual # Raise /\ Truthy(manual)))
            output_path == OutputPath(person_name, timestamp)
            result == register_new_face(frame, faces, voice, manual,
                                        write \in {"ok", "imwrite_false"})
        IN  /\ face_files' = IF named /\ write \in {"ok", "log_raises"}
                             THEN face_files \cup {output_path} ELSE face_files
            /\ IF named /\ write \in {"ok", "imwrite_false"}
               THEN /\ face_log' = Append(face_log, Registration(person_name, output_path))
                    /\ log_exists' = TRUE
               ELSE UNCHANGED <<face_log, log_exists>>
            /\ face_last' = [op |-> "register", name |-> person_name, ret |-> result]
            /\ face_steps' = RegisterSteps(frame, faces, voice, manual, write)
    /\ UNCHANGED <<session, camera, video, responder>>

\* name = line.split(",")[0].strip(): the text before the first comma, the whole
\* line when it has none
FirstField(text) ==
    IF FirstComma(text) = 0 THEN Strip(text)
    ELSE Strip(SubSeq(text, 1, FirstComma(text) - 1))

\* the names of the lines of log in their order, each one once, after those of acc
RECURSIVE UniqueNames(_, _)
UniqueNames(log, acc) ==
    IF log = <<>> THEN acc
    ELSE LET text == Head(log).text
             name == FirstField(text)
         IN  UniqueNames(Tail(log),
                         IF NonBlank(text) /\ \A i \in 1..Len(acc) : acc[i] # name
                         THEN Append(acc, name) ELSE acc)

\* a get_registered_faces that lists the name of every line
get_registered_faces_all(exists, log) ==
    IF ~exists THEN <<>>
    ELSE [i \in 1..Len(SelectSeq(log, LAMBDA line : NonBlank(line.text))) |->
             FirstField(SelectSeq(log, LAMBDA line : NonBlank(line.text))[i].text)]
\* get_registered_faces(): the names in the log, exists telling whether the file is there
get_registered_faces(exists, log) ==
    IF ~exists THEN <<>> ELSE UniqueNames(log, <<>>)

\* the file operations of one delete_face_registration in their order: the existence
\* test, the reading, the removal of image files when there are any, the rewrite
DeleteSteps(exists, unparsable, removes, io) ==
    <<Step("exists", IF exists THEN "True" ELSE "False")>>
    \o (IF ~exists THEN <<>>
        ELSE <<Step("read", IF unparsable THEN Raise ELSE "ok")>>
             \o (IF unparsable THEN <<>>
                 ELSE (IF removes
                       THEN <<Step("unlink", IF io = "unlink_raises" THEN Raise ELSE "ok")>>
                       ELSE <<>>)
                      \o (IF removes /\ io = "unlink_raises" THEN <<>>
                          ELSE <<Step("write", IF io = "write_raises" THEN Raise ELSE "ok")>>)))

\* delete_face_registration(person_name)
FaceDelete ==
    /\ \E person_name \in DeleteNames, io \in DeleteOutcomes :
        LET registrations ==
                SelectSeq(face_log, LAMBDA line :
                    NonBlank(line.text) /\ ParsedName(line.text) # person_name)
            deleted_files ==
                {ParsedPath(face_log[i].text) : i \in
                    {j \in 1..Len(face_log) :
                        /\ NonBlank(face_log[j].text)
                        /\ ParsedName(face_log[j].text) = person_name}}
            raised == \/ \E i \in 1..Len(face_log) : Unparsable(face_log[i].text)
                      \/ (io = "unlink_raises" /\ deleted_files \cap face_files # {})
                      \/ io = "write_raises"
        IN  /\ face_steps' =
                  DeleteSteps(log_exists,
                              \E i \in 1..Len(face_log) : Unparsable(face_log[i].text),
                              deleted_files \cap face_files # {}, io)
            /\ IF ~log_exists
               THEN /\ face_last' = [op |-> "delete", name |-> person_name, ret |-> FALSE]
                    /\ UNCHANGED <<face_log, face_files, log_exists>>
               ELSE /\ face_last' = [op |-> "delete", name |-> person_name, ret |-> ~raised]
                    /\ face_log' = IF raised THEN face_log ELSE registrations
                    /\ face_files' =
                           IF \/ \E i \in 1..Len(face_log) : Unparsable(face_log[i].text)
                              \/ io = "unlink_raises"
                           THEN face_files
                           ELSE face_files \ deleted_files
                    /\ UNCHANGED log_exists
    /\ UNCHANGED <<session, camera, video, responder>>

\* the lines face_log.txt can hold that register_new_face did not write: the file
\* is plain text in FACE_OUTPUT_DIR and is read back as it is found
ForeignLines == {"Carol\n"}

\* a line is added to face_log.txt from outside register_new_face
LogEdited ==
    /\ Len(face_log) < MaxLog
    /\ \E text \in ForeignLines :
          face_log' = Append(face_log, [name |-> None, text |-> text])
    /\ log_exists' = TRUE
    /\ face_last' = [op |-> "edit", name |-> None, ret |-> None]
    /\ face_steps' = <<>>
    /\ UNCHANGED <<face_files, session, camera, video, responder>>

FaceNext ==
    \/ FaceRegister
    \/ FaceDelete
    \/ LogEdited

FaceSpec == Init /\ [][FaceNext]_vars

(***************************************************************************)
(* The batch video analysis of modules/video_analyzer.py: the thread of    *)
(* capture_frames puts frames on frame_queue, the thread of                *)
(* describe_frames takes them off, start_video_analysis joins both.        *)
(***************************************************************************)
\* os.path.join(output_folder, f"frame_{frame_count}.jpg")
FrameFile(n) == "frames/frame_" \o ToString(n) \o ".jpg"

\* a put that delivers its item twice
PutTwice(item) ==
    /\ frame_queue' = frame_queue \o <<item, item>>
    /\ enqueued' = enqueued \o <<item, item>>
\* frame_queue.put(item): never blocks, the queue has no maximum size
Put(item) ==
    /\ frame_queue' = Append(frame_queue, item)
    /\ enqueued' = Append(enqueued, item)

\* start_video_analysis: the queue is created and both threads are started
VideoStart ==
    /\ video_pc = "idle"
    /\ video_pc' = "join_capture"
    /\ capture_pc' = "open"
    /\ describe_pc' = "get"
    /\ UNCHANGED <<frame_queue, frame_count, enqueued, dequeued, pdf_pages, pdf_written,
                   session, camera, facelog, responder>>

\* capture_frames: makedirs, cv2.VideoCapture(0), isOpened
CaptureOpen ==
    /\ capture_pc = "open"
    /\ \E outcome \in {"opened", "not_opened", "raises"} :
          capture_pc' = IF outcome = "opened" THEN "read" ELSE "done"
    /\ UNCHANGED <<video_pc, describe_pc, frame_queue, frame_count, enqueued, dequeued,
                   pdf_pages, pdf_written, session, camera, facelog, responder>>

\* capture_frames: one iteration of the loop, from cap.read() to cv2.waitKey(1)
CaptureFrame ==
    /\ capture_pc = "read"
    /\ \E outcome \in {"next", "quit", "no_frame", "read_raises", "show_raises"} :
          /\ outcome = "next" => frame_count < MaxFrames
          /\ IF outcome \in {"no_frame", "read_raises"}
             THEN UNCHANGED <<frame_queue, enqueued, frame_count>>
             ELSE /\ IF frame_count % FrameInterval = 0
                     THEN Put(FrameFile(frame_count))
                     ELSE UNCHANGED <<frame_queue, enqueued>>
                  /\ frame_count' = frame_count + 1
          /\ capture_pc' = CASE outcome = "next" -> "read"
                              [] outcome \in {"quit", "no_frame"} -> "close"
                              [] OTHER -> "done"
    /\ UNCHANGED <<video_pc, describe_pc, dequeued, pdf_pages, pdf_written,
                   session, camera, facelog, responder>>

\* capture_frames after the loop: cap.release(), destroyAllWindows(), frame_queue.put(None)
CaptureClose ==
    /\ capture_pc = "close"
    /\ \E outcome \in {"closed", "raises"} :
          IF outcome = "closed"
          THEN Put(None)
          ELSE UNCHANGED <<frame_queue, enqueued>>
    /\ capture_pc' = "done"
    /\ UNCHANGED <<video_pc, describe_pc, frame_count, dequeued, pdf_pages, pdf_written,
                   session, camera, facelog, responder>>

\* describe_frames: frame_data = frame_queue.get(), which blocks on an empty queue
DescribeGet ==
    /\ describe_pc = "get"
    /\ frame_queue # <<>>
    /\ frame_queue' = Tail(frame_queue)
    /\ dequeued' = Append(dequeued, Head(frame_queue))
    /\ describe_pc' = IF Head(frame_queue) = None THEN "output" ELSE "describe"
    /\ UNCHANGED <<video_pc, capture_pc, frame_count, enqueued, pdf_pages, pdf_written,
                   session, camera, facelog, responder>>

\* a describer that leaves out the page of a frame whose description failed
DescribeFrameSkipping ==
    /\ describe_pc = "describe"
    /\ \E outcome \in {"described", "model_raises", "page_raises"} :
          /\ describe_pc' = IF outcome = "page_raises" THEN "done" ELSE "get"
          /\ pdf_pages' =
                IF outcome = "described"
                THEN Append(pdf_pages, "description of " \o dequeued[Len(dequeued)])
                ELSE pdf_pages
    /\ UNCHANGED <<video_pc, capture_pc, frame_queue, frame_count, enqueued, dequeued,
                   pdf_written, session, camera, facelog, responder>>

\* describe_frames: the description of the frame taken last and its page of the PDF
DescribeFrame ==
    /\ describe_pc = "describe"
    /\ \E outcome \in {"described", "model_raises", "page_raises"} :
          /\ describe_pc' = IF outcome = "page_raises" THEN "done" ELSE "get"
          /\ pdf_pages' =
                CASE outcome = "described" ->
                        Append(pdf_pages, "description of " \o dequeued[Len(dequeued)])
                  [] outcome = "model_raises" ->
                        Append(pdf_pages, "Error generating description.")
                  [] OTHER -> pdf_pages
    /\ UNCHANGED <<video_pc, capture_pc, frame_queue, frame_count, enqueued, dequeued,
                   pdf_written, session, camera, facelog, responder>>

\* describe_frames after the loop: pdf.output(pdf_path)
DescribeOutput ==
    /\ describe_pc = "output"
    /\ pdf_written' \in BOOLEAN
    /\ describe_pc' = "done"
    /\ UNCHANGED <<video_pc, capture_pc, frame_queue, frame_count, enqueued, dequeued,
                   pdf_pages, session, camera, facelog, responder>>

\* start_video_analysis: capture_thread.join()
JoinCapture ==
    /\ video_pc = "join_capture"
    /\ capture_pc = "done"
    /\ video_pc' = "join_describe"
    /\ UNCHANGED <<capture_pc, describe_pc, frame_queue, frame_count, enqueued, dequeued,
                   pdf_pages, pdf_written, session, camera, facelog, responder>>

\* start_video_analysis: describe_thread.join(), then it returns
JoinDescribe ==
    /\ video_pc = "join_describe"
    /\ describe_pc = "done"
    /\ video_pc' = "returned"
    /\ UNCHANGED <<capture_pc, describe_pc, frame_queue, frame_count, enqueued, dequeued,
                   pdf_pages, pdf_written, session, camera, facelog, responder>>

VideoNext ==
    \/ VideoStart
    \/ CaptureOpen
    \/ CaptureFrame
    \/ CaptureClose
    \/ DescribeGet
    \/ DescribeFrame
    \/ DescribeOutput
    \/ JoinCapture
    \/ JoinDescribe

\* every thread that can take a step is scheduled in the end
VideoSpec ==
    /\ Init
    /\ [][VideoNext]_vars
    /\ WF_vars(CaptureOpen \/ CaptureFrame \/ CaptureClose)
    /\ WF_vars(DescribeGet \/ DescribeFrame \/ DescribeOutput)
    /\ WF_vars(VideoStart \/ JoinCapture \/ JoinDescribe)

(***************************************************************************)
(* Reading the trace.                                                      *)
(***************************************************************************)
\* the six feature handlers, in the order the specification fixes
FixedOrder ==
    <<"analyze_scene", "recognize_object", "extract_text_from_image",
      "send_sos_message", "analyze_environment", "register_new_face">>

\* the fixed keyword list of a handler's category
KeywordsOf(h) ==
    CASE h = "analyze_scene" -> scene_trigger
      [] h = "recognize_object" -> sensory_trigger
      [] h = "extract_text_from_image" -> ocr_trigger
      [] h = "send_sos_message" -> sos_trigger
      [] h = "analyze_environment" -> nav_trigger
      [] h = "register_new_face" -> face_trigger

\* k occurs in u as a run of consecutive characters starting at some position i
IsSubstring(k, u) ==
    \E i \in 1..(Len(u) - Len(k) + 1) : SubSeq(u, i, i + Len(k) - 1) = k

\* some keyword of h's category occurs in u
Matches(h, u) ==
    \E n \in 1..Len(KeywordsOf(h)) : IsSubstring(KeywordsOf(h)[n], u)

\* the position of handler h in the fixed order
Rank(h) == CHOOSE n \in 1..Len(FixedOrder) : FixedOrder[n] = h

\* the feature handlers invoked so far in this cycle, in order of invocation
Invoked ==
    LET calls == SelectSeq(events, LAMBDA e : e.op = "call" /\ e.fn # "handle_follow_up_queries")
    IN  [n \in 1..Len(calls) |-> calls[n].fn]

\* the utterance of this cycle was heard and is a non-empty string
HeardUtterance == user_talk # None /\ user_talk # "" /\ pc \notin {"start", "listen"}

\* the dispatch of a non-empty utterance has run to its end
CycleDone == HeardUtterance /\ pc \in {"loop", "terminated"}

(***************************************************************************)
(* C1: for a non-empty utterance heard at top level, a category's handler  *)
(* is invoked in that cycle if and only if one of the category's keywords  *)
(* is a substring of the utterance.                                        *)
(***************************************************************************)
C1_InvokedIffKeyword ==
    CycleDone =>
        \A n \in 1..Len(FixedOrder) :
            (\E i \in 1..Len(events) : events[i] = Call(FixedOrder[n]))
                <=> Matches(FixedOrder[n], user_talk)

\* "research bread": two keywords matched inside longer words, no other category
C1_Witness ==
    /\ pc = "loop"
    /\ user_talk = "research bread"
    /\ Invoked = <<"recognize_object", "extract_text_from_image">>

(***************************************************************************)
(* C2: the handlers matched by one utterance are invoked once each, in the *)
(* order scene, object, ocr, sos, navigation, face; "help sos emergency    *)
(* exit" invokes the SOS handler once and the session ends.                *)
(***************************************************************************)
C2_FixedOrderOnce ==
    LET invoked == Invoked
    IN  /\ \A n \in 1..(Len(invoked) - 1) : Rank(invoked[n]) < Rank(invoked[n + 1])
        /\ CycleDone => invoked = SelectSeq(FixedOrder, LAMBDA h : Matches(h, user_talk))
        /\ (pc = "terminated" /\ user_talk = "help sos emergency exit")
              => invoked = <<"send_sos_message">>

\* all six categories matched, two of them by two keywords
C2_Witness ==
    /\ pc = "terminated"
    /\ user_talk = "describe scene search book sos help route register exit"
    /\ Invoked = FixedOrder

(***************************************************************************)
(* C3: a null or empty transcription invokes nothing, moves no servo and   *)
(* never ends the session: "No Input" alone is spoken.  A non-empty        *)
(* utterance with no keyword and no "exit" invokes and speaks nothing.     *)
(***************************************************************************)
C3_NoInput ==
    /\ (user_talk = None \/ user_talk = "")
          => /\ pc \in {"start", "listen", "loop"}
             /\ stack = <<"start">>
    /\ (pc = "loop" /\ (user_talk = None \/ user_talk = ""))
          => events = <<Hear("start", user_talk), Speak("start", "No Input")>>
    /\ (/\ CycleDone
        /\ \A n \in 1..Len(FixedOrder) : ~Matches(FixedOrder[n], user_talk)
        /\ ~IsSubstring("exit", user_talk))
          => /\ pc = "loop"
             /\ events = <<Hear("start", user_talk)>>

\* the empty transcription
C3_Witness ==
    /\ pc = "loop"
    /\ user_talk = ""
    /\ events = <<Hear("start", ""), Speak("start", "No Input")>>

(***************************************************************************)
(* C4: an utterance with the exit keyword ends the session whatever else   *)
(* it matches, and every handler it matched was invoked and had returned   *)
(* before the farewell.                                                    *)
(***************************************************************************)
C4_ExitAfterHandlers ==
    /\ CycleDone => (pc = "terminated" <=> IsSubstring("exit", user_talk))
    /\ pc = "terminated"
          => /\ stack = <<>>
             /\ events[Len(events)] = Speak("start", "Exiting now.")
             /\ \A i \in 1..(Len(events) - 1) : events[i] # Speak("start", "Exiting now.")
             /\ \A n \in 1..Len(FixedOrder) :
                    Matches(FixedOrder[n], user_talk)
                        => \E i \in 1..(Len(events) - 1) :
                              /\ events[i] = Call(FixedOrder[n])
                              /\ \E j \in (i + 1)..(Len(events) - 1) :
                                    /\ events[j].op = "return"
                                    /\ events[j].fn = FixedOrder[n]

\* "research exit": recognition, a follow-up session, then the farewell
C4_Witness ==
    /\ pc = "terminated"
    /\ user_talk = "research exit"
    /\ \E i \in 1..Len(events) : events[i] = Return("handle_follow_up_queries", None)

(***************************************************************************)
(* Reading the follow-up sub-session off the trace.                        *)
(***************************************************************************)
\* the sub-session's farewell is the event at position i
FollowUpExitAt(i) ==
    events[i] = Speak("handle_follow_up_queries", "Exiting follow-up session.")

\* the feature handlers invoked after position i, in order of invocation
InvokedAfter(i) ==
    LET calls == SelectSeq(SubSeq(events, i + 1, Len(events)),
                           LAMBDA e : e.op = "call" /\ e.fn # "handle_follow_up_queries")
    IN  [n \in 1..Len(calls) |-> calls[n].fn]

\* the sub-session is running
InFollowUp == stack = <<"start", "handle_follow_up_queries">>

(***************************************************************************)
(* C5, as stated: once the follow-up sub-session has exited, no category   *)
(* is invoked and no exit check ends the session before the next voice     *)
(* capture.                                                                *)
(***************************************************************************)
C5_AsStated ==
    \A i \in 1..Len(events) :
        FollowUpExitAt(i)
            => /\ pc # "terminated"
               /\ \A j \in (i + 1)..Len(events) : events[j].op \notin {"call", "servo"}

(***************************************************************************)
(* C5, amended: when the follow-up sub-session exits, start() resumes      *)
(* after the object step of the same cycle: ocr, sos, navigation, face and *)
(* the exit check are evaluated against the original top-level utterance   *)
(* (never the follow-up utterance) before the loop listens again.          *)
(***************************************************************************)
C5_ResumesDispatch ==
    \A i \in 1..Len(events) :
        FollowUpExitAt(i)
            => LET later == InvokedAfter(i)
               IN  /\ \A n \in 1..Len(later) : Matches(later[n], user_talk)
                   /\ CycleDone
                        => /\ later = SelectSeq(SubSeq(FixedOrder, 3, 6),
                                                LAMBDA h : Matches(h, user_talk))
                           /\ pc = "terminated" <=> IsSubstring("exit", user_talk)

\* "research help": after the follow-up's "exit" the SOS handler still runs
C5_Witness ==
    /\ pc = "loop"
    /\ user_talk = "research help"
    /\ \E i \in 1..Len(events) :
          /\ FollowUpExitAt(i)
          /\ events[i - 1] = Hear("handle_follow_up_queries", "exit")
          /\ InvokedAfter(i) = <<"send_sos_message">>

(***************************************************************************)
(* C6: at most one feature handler executes at a time, none while the      *)
(* follow-up sub-session runs, and what is heard inside the sub-session    *)
(* invokes no feature handler.                                             *)
(***************************************************************************)
C6_OneHandlerAtATime ==
    /\ Cardinality({n \in 1..Len(stack) :
                       \E m \in 1..Len(FixedOrder) : stack[n] = FixedOrder[m]}) <= 1
    /\ (\E n \in 1..Len(stack) : stack[n] = "handle_follow_up_queries") => InFollowUp
    /\ \A i \in 1..Len(events) :
          events[i] = Call("handle_follow_up_queries")
              => \A j \in (i + 1)..Len(events) :
                    (\A k \in (i + 1)..j : events[k] # Return("handle_follow_up_queries", None))
                        => /\ events[j].op \in {"speak", "hear", "generate"}
                           /\ events[j].fn \in {"handle_follow_up_queries",
                                                "generate_contextual_response"}

\* "Help me buy it" heard in the sub-session, answered, no handler invoked
C6_Witness ==
    /\ InFollowUp
    /\ ~Matches("send_sos_message", user_talk)
    /\ \E i \in 1..Len(events) :
          /\ events[i] = Hear("handle_follow_up_queries", "Help me buy it")
          /\ events[i + 1].op = "generate"
    /\ Invoked = <<"recognize_object">>

(***************************************************************************)
(* C7: every call of the response generator in a sub-session receives the  *)
(* string recognize_object returned when the sub-session was entered.      *)
(***************************************************************************)
C7_ContextUnchanged ==
    /\ InFollowUp => \E i \in 1..Len(events) : events[i] = Return("recognize_object", context)
    /\ \A j \in 1..Len(events) :
          events[j].op = "generate"
              => \E i \in 1..(j - 1) : events[i] = Return("recognize_object", events[j].text)

\* two answered turns, the first of them answered with the apology
C7_Witness ==
    /\ InFollowUp
    /\ \E i, j \in 1..Len(events) :
          /\ i < j
          /\ events[i].op = "generate"
          /\ events[i + 1] = Speak("handle_follow_up_queries",
                                   "Sorry, I couldn't process your request.")
          /\ events[j].op = "generate"

(***************************************************************************)
(* C8: the follow-up sub-session is entered exactly when the object        *)
(* trigger matched and recognize_object returned a truthy description; on  *)
(* a falsy one "Failed to recognize object" is spoken instead.             *)
(***************************************************************************)
C8_FollowUpIffRecognized ==
    /\ (\E i \in 1..Len(events) : events[i] = Call("handle_follow_up_queries"))
          <=> (\E i \in 1..Len(events) :
                  /\ events[i].op = "return"
                  /\ events[i].fn = "recognize_object"
                  /\ events[i].text # None
                  /\ events[i].text # "")
    /\ \A i \in 1..Len(events) :
          (events[i].op = "return" /\ events[i].fn = "recognize_object")
              => /\ Matches("recognize_object", user_talk)
                 /\ i < Len(events)
                 /\ events[i + 1] = (IF events[i].text = None \/ events[i].text = ""
                                     THEN Speak("start", "Failed to recognize object")
                                     ELSE Call("handle_follow_up_queries"))

\* the model answered with an empty description
C8_Witness ==
    /\ pc = "ocr"
    /\ \E i \in 1..(Len(events) - 1) :
          /\ events[i] = Return("recognize_object", "")
          /\ events[i + 1] = Speak("start", "Failed to recognize object")
    /\ \A i \in 1..Len(events) : events[i] # Call("handle_follow_up_queries")

(***************************************************************************)
(* C9: the dispatcher says "SOS message sent successfully" whenever        *)
(* send_sos_message returned a message identifier, and "Failed to send SOS *)
(* message" whenever it returned its error string.                         *)
(***************************************************************************)
C9_SosAnnounced ==
    \A i \in 1..Len(events) :
        (events[i].op = "return" /\ events[i].fn = "send_sos_message")
            => /\ i < Len(events)
               /\ events[i + 1] = Speak("start",
                                        IF events[i].text \in MessageSids
                                        THEN "SOS message sent successfully"
                                        ELSE "Failed to send SOS message")

(***************************************************************************)
(* C10: for scene, object, text extraction, navigation and face the fixed  *)
(* failure notice is spoken once exactly when the handler returned a falsy *)
(* value, no handler is invoked twice for one utterance, and an extracted  *)
(* text "no text" is a success.                                            *)
(***************************************************************************)
FailureNotice(h) ==
    CASE h = "analyze_scene" -> "Failed to analyze scene"
      [] h = "recognize_object" -> "Failed to recognize object"
      [] h = "extract_text_from_image" -> "Failed to extract text from image"
      [] h = "analyze_environment" -> "Failed to analyze environment for navigation"
      [] h = "register_new_face" -> "Face registration failed."

C10_FailureNoticeOnce ==
    /\ \A h \in {"analyze_scene", "recognize_object", "extract_text_from_image",
                 "analyze_environment", "register_new_face"} :
          LET calls == {i \in 1..Len(events) : events[i] = Call(h)}
              falsy == {i \in 1..Len(events) :
                           /\ events[i].op = "return"
                           /\ events[i].fn = h
                           /\ (events[i].text = None \/ events[i].text = "")}
              notices == {i \in 1..Len(events) : events[i] = Speak("start", FailureNotice(h))}
          IN  /\ Cardinality(calls) <= 1
              /\ Cardinality(notices) = Cardinality(falsy)
              /\ \A i \in notices : i - 1 \in falsy
    /\ (\E i \in 1..Len(events) : events[i] = Return("extract_text_from_image", "no text"))
          => \A i \in 1..Len(events) :
                events[i] # Speak("start", "Failed to extract text from image")

\* the vision model answered "no text"
C10_Witness ==
    /\ pc = "loop"
    /\ \E i \in 1..Len(events) :
          /\ events[i] = Return("extract_text_from_image", "no text")
          /\ i = Len(events)

(***************************************************************************)
(* Reading one invocation out of the trace.                                *)
(***************************************************************************)
\* the handlers that speak their own result before returning it
SelfSpeaking == {"recognize_object", "extract_text_from_image", "analyze_environment"}
\* the handlers whose result start() speaks
DispatcherSpoken == {"analyze_scene", "register_new_face"}

\* what is said of a result v of handler h
Said(h, v) == IF h = "register_new_face" THEN "Face registered as " \o v ELSE v

\* the position of the call of h that returned at position i
CallOf(h, i) == CHOOSE c \in 1..i : events[c] = Call(h)

\* the positions, from the call of h to start()'s reaction to the return at
\* position i, where h or start() speaks the result v
SpeechesOf(h, i, v) ==
    LET last == IF i < Len(events) THEN i + 1 ELSE i
    IN  {k \in CallOf(h, i)..last :
            /\ events[k].op = "speak"
            /\ events[k].fn \in {h, "start"}
            /\ events[k].text \in {v, Said(h, v)}}

\* the positions between the call of h and its return at position i where h speaks
SpokenInside(h, i) ==
    {k \in CallOf(h, i)..i : events[k].op = "speak" /\ events[k].fn = h}

(***************************************************************************)
(* C11: a truthy result of the scene, object, text, navigation or face     *)
(* handler is spoken exactly once in its invocation: the object, text and  *)
(* navigation handlers speak it themselves before returning and start()    *)
(* says nothing; the scene and face handlers say nothing and start()       *)
(* speaks the result right after the return.                               *)
(***************************************************************************)
C11_SpokenOnce ==
    \A i \in 1..Len(events) :
        LET e == events[i]
        IN  (/\ e.op = "return"
             /\ e.fn \in SelfSpeaking \cup DispatcherSpoken
             /\ Truthy(e.text))
            => LET speeches == SpeechesOf(e.fn, i, e.text)
               IN  /\ Cardinality(speeches) = 1
                   /\ IF e.fn \in SelfSpeaking
                      THEN \A k \in speeches : k < i /\ events[k] = Speak(e.fn, e.text)
                      ELSE /\ SpokenInside(e.fn, i) = {}
                           /\ speeches = {i + 1}
                           /\ events[i + 1] = Speak("start", Said(e.fn, e.text))

\* one cycle in which the scene result is spoken by start(), the navigation result
\* by its handler and the name by start()
C11_Witness ==
    /\ pc = "terminated"
    /\ \E i, j, k \in 2..(Len(events) - 1) :
          /\ events[i] = Return("analyze_scene", "a red mug on a desk")
          /\ events[i + 1] = Speak("start", "a red mug on a desk")
          /\ events[j - 1] = Speak("analyze_environment", "a red mug on a desk")
          /\ events[j] = Return("analyze_environment", "a red mug on a desk")
          /\ events[k] = Return("register_new_face", "Alice")
          /\ events[k + 1] = Speak("start", "Face registered as Alice")

(***************************************************************************)
(* C12: no failure of a boundary call inside a handler reaches start() as  *)
(* an exception: every value a handler returns is a result, None or an     *)
(* error string, never a raised exception; after the return start() is at  *)
(* a later statement of the same cycle with only its own frame on the      *)
(* stack (or has entered the follow-up sub-session), and the session ends  *)
(* only by the farewell of the exit command.                               *)
(***************************************************************************)
C12_HandlersReturn ==
    /\ \A i \in 1..Len(events) :
          LET e == events[i]
          IN  e.op = "return" =>
                /\ e.text # Raise
                /\ \/ stack = <<"start">> /\ pc \in {Order[n] : n \in 2..Len(Order)} \cup {"loop"}
                   \/ stack = <<>> /\ pc = "terminated"
                   \/ /\ Len(stack) = 2
                      /\ \E k \in i..Len(events) : events[k] = Call(stack[2])
    /\ stack = <<>> => /\ pc = "terminated"
                       /\ events[Len(events)] = Speak("start", "Exiting now.")

\* "help bread": the text extraction failed on the camera, the encoding or the
\* remote model, the SMS service raised, and the loop went on to listen again
C12_Witness ==
    /\ pc = "loop"
    /\ stack = <<"start">>
    /\ user_talk = "help bread"
    /\ \E i, j \in 1..Len(events) :
          /\ events[i] = Return("extract_text_from_image", None)
          /\ events[j] = Return("send_sos_message",
                                "Failed to send SOS message: HTTPSConnectionPool: Max retries exceeded")

(***************************************************************************)
(* C13: positioning the servo is fire-and-forget.  Whenever a category     *)
(* matches, the step of start() at its check invokes the handler whatever  *)
(* the servo request answered: for scene and text extraction after a       *)
(* request for angle 115, for navigation and face after one for angle 90,  *)
(* for object and SOS with no request at all; and what start() does with   *)
(* the handler's result depends on that result alone.                      *)
(***************************************************************************)
\* the servo request start() makes before it calls h
PreServo(h) ==
    CASE h \in {"analyze_scene", "extract_text_from_image"} -> <<Servo("start", 115)>>
      [] h \in {"analyze_environment", "register_new_face"} -> <<Servo("start", 90)>>
      [] OTHER -> <<>>

\* what start() says of the value v that h returned: nothing is <<>>
Reaction(h, v) ==
    CASE h \in DispatcherSpoken ->
            <<Speak("start", IF Truthy(v) THEN Said(h, v) ELSE FailureNotice(h))>>
      [] h \in {"extract_text_from_image", "analyze_environment"} ->
            IF Truthy(v) THEN <<>> ELSE <<Speak("start", FailureNotice(h))>>

C13_Step ==
    /\ \A n \in 1..Len(FixedOrder) :
          LET h == FixedOrder[n]
          IN  (pc = Order[n] /\ stack = <<"start">> /\ Matches(h, user_talk))
              => /\ stack' = <<"start", h>>
                 /\ events' = events \o PreServo(h) \o <<Call(h)>>
                 /\ IF PreServo(h) = <<>>
                    THEN servo_reply' = None
                    ELSE servo_reply' \in ServoReplies
    /\ \A h \in {"analyze_scene", "extract_text_from_image", "analyze_environment",
                 "register_new_face"} :
          (stack = <<"start", h>> /\ stack' = <<"start">>)
          => /\ servo_reply \in ServoReplies
             /\ \E i \in (Len(events) + 1)..Len(events') :
                   /\ events'[i].op = "return"
                   /\ events'[i].fn = h
                   /\ SubSeq(events', i + 1, Len(events')) = Reaction(h, events'[i].text)

C13_FireAndForget == [][C13_Step]_vars

\* the servo request raised and the text extraction handler is running
C13_Witness ==
    /\ stack = <<"start", "extract_text_from_image">>
    /\ servo_reply = Raise
    /\ ~set_servo_angle(servo_reply)
    /\ events[Len(events) - 1] = Servo("start", 115)
    /\ events[Len(events)] = Call("extract_text_from_image")

(***************************************************************************)
(* C14: iot_controller.get_frame tries the network camera first; when it   *)
(* yields a frame that frame is returned and the local camera is never     *)
(* opened; when it raises, times out or yields an image that cannot be     *)
(* decoded the local camera is tried; None is returned only after the      *)
(* local camera failed too.                                                *)
(***************************************************************************)
C14_Fallback ==
    (cam_pc = "done" /\ FirstCamera(cam_caller) = "esp")
    => /\ Len(cam_trace) \in {1, 2}
       /\ cam_trace[1].device = "esp"
       /\ IF cam_trace[1].outcome = "frame"
          THEN Len(cam_trace) = 1 /\ cam_result = "frame"
          ELSE /\ Len(cam_trace) = 2
               /\ cam_trace[2].device = "local"
               /\ cam_result = get_frame(cam_trace[1].outcome, cam_trace[2].outcome)
               /\ cam_result = None <=> cam_trace[2].outcome # "frame"

\* the network camera timed out and the local camera gave the frame
C14_Witness ==
    /\ cam_pc = "done"
    /\ cam_caller = "analyze_scene"
    /\ cam_trace = <<Attempt("esp", "timeout"), Attempt("local", "frame")>>
    /\ cam_result = "frame"

(***************************************************************************)
(* C15: a delete_face_registration(n) that returns True leaves in the log  *)
(* exactly the lines that were registered under a name other than n,       *)
(* unchanged and in their order.                                           *)
(***************************************************************************)
C15_DeleteStep ==
    (face_last'.op = "delete" /\ face_last'.ret = TRUE /\ face_last' # face_last)
    => face_log' = SelectSeq(face_log, LAMBDA line : line.name # face_last'.name)

C15_RoundTrip == [][C15_DeleteStep]_vars

(***************************************************************************)
(* C16: whenever the capture thread of the video analysis has stopped, on  *)
(* the quit key or on a camera failure, the failure to open the camera     *)
(* included, it has put the None sentinel on the queue as its last item,   *)
(* and the analysis is never stuck: start_video_analysis has returned or   *)
(* one of its threads can still take a step.                               *)
(***************************************************************************)
C16_SentinelOnStop ==
    /\ capture_pc = "done" =>
          /\ enqueued # <<>>
          /\ enqueued[Len(enqueued)] = None
    /\ video_pc = "returned" \/ ENABLED VideoNext

(***************************************************************************)
(* C17: the session has ended exactly in the states from which start()     *)
(* takes no further step, and it ends only by the exit check of a cycle    *)
(* whose top-level utterance is non-empty and contains "exit", with the    *)
(* farewell as the last event: an empty input, a failed feature or the     *)
(* exit of the follow-up sub-session alone never ends it.                  *)
(***************************************************************************)
C17_OnlyExitTerminates ==
    /\ pc = "terminated" <=> ~ENABLED Next
    /\ pc = "terminated" <=> stack = <<>>
    /\ pc = "terminated"
          => /\ Truthy(user_talk)
             /\ IsSubstring("exit", user_talk)
             /\ events[1] = Hear("start", user_talk)
             /\ events[Len(events)] = Speak("start", "Exiting now.")

\* "exit bread": the text extraction failed, and the exit check ended the session
C17_Witness ==
    /\ pc = "terminated"
    /\ ~ENABLED Next
    /\ user_talk = "exit bread"
    /\ \E i \in 1..Len(events) : events[i] = Return("extract_text_from_image", None)

(***************************************************************************)
(* C18, as stated: the categories an utterance triggers are those with a   *)
(* keyword occurring in it whatever the letter case, so that "Describe"    *)
(* triggers the scene handler and "SOS" the SOS handler.                   *)
(***************************************************************************)
C18_AsStated ==
    CycleDone =>
        LET folded == Lower(user_talk)
        IN  \A n \in 1..Len(FixedOrder) :
                Matches(FixedOrder[n], folded)
                    => \E i \in 1..Len(events) : events[i] = Call(FixedOrder[n])

(***************************************************************************)
(* C18, corrected: matching is case-sensitive.  The keywords are lowercase *)
(* and are searched in the utterance as it was transcribed, so a category  *)
(* whose keywords occur in the utterance only in another letter case is    *)
(* not triggered: "Describe" and "SOS" trigger nothing.                    *)
(***************************************************************************)
C18_CaseSensitive ==
    /\ CycleDone =>
          LET folded == Lower(user_talk)
          IN  \A n \in 1..Len(FixedOrder) :
                  (~Matches(FixedOrder[n], user_talk) /\ Matches(FixedOrder[n], folded))
                      => \A i \in 1..Len(events) : events[i] # Call(FixedOrder[n])
    /\ (CycleDone /\ user_talk \in {"Describe", "SOS"})
          => pc = "loop" /\ events = <<Hear("start", user_talk)>>

\* "SOS" was heard and the cycle ended without the SOS handler
C18_Witness ==
    /\ pc = "loop"
    /\ user_talk = "SOS"
    /\ Matches("send_sos_message", Lower(user_talk))
    /\ events = <<Hear("start", "SOS")>>

(***************************************************************************)
(* C19: for the utterance "can you describe the scene" the cycle is: the   *)
(* servo is sent to 115, analyze_scene is invoked and captures its frame   *)
(* after that, and start() speaks the narrative it returned or, when it    *)
(* returned none, "Failed to analyze scene"; no other handler is invoked,  *)
(* the session does not end, and the next step is back to listening.       *)
(***************************************************************************)
SceneUtterance == "can you describe the scene"

C19_Step ==
    (user_talk = SceneUtterance /\ CycleDone)
    => /\ pc = "loop"
       /\ Len(events) = 7
       /\ SubSeq(events, 1, 5) =
              <<Hear("start", SceneUtterance), Servo("start", 115), Call("analyze_scene"),
                Servo("analyze_scene", 115), Capture("analyze_scene")>>
       /\ events[6].op = "return" /\ events[6].fn = "analyze_scene"
       /\ events[7] = Speak("start", IF Truthy(events[6].text) THEN events[6].text
                                     ELSE "Failed to analyze scene")
       /\ pc' = "listen"
       /\ stack' = <<"start">>

C19_SceneScenario == [][C19_Step]_vars

\* the narrative was returned and spoken
C19_Witness ==
    /\ user_talk = SceneUtterance
    /\ pc = "loop"
    /\ events[6] = Return("analyze_scene", "a red mug on a desk")
    /\ events[7] = Speak("start", "a red mug on a desk")

(***************************************************************************)
(* C20: every turn of the follow-up sub-session is one of three.  A failed *)
(* or empty transcription: the retry notice is spoken, the response        *)
(* generator is not called, the sub-session goes on.  A non-empty          *)
(* utterance without "exit": the generator is called with the stored       *)
(* context and its answer is spoken, the sub-session goes on.  An          *)
(* utterance with "exit" in any letter case: the farewell is spoken and    *)
(* the sub-session returns.  Nothing else ends the sub-session, however    *)
(* many turns it has had.                                                  *)
(***************************************************************************)
RetryNotice ==
    Speak("handle_follow_up_queries",
          "No valid input detected. Please try again or say 'exit' to end.")

C20_Step ==
    InFollowUp
    => LET added == SubSeq(events', Len(events) + 1, Len(events'))
           q == added[2].text
       IN  /\ Len(added) \in {3, 4}
           /\ added[1] = FollowUpPrompt
           /\ added[2] = Hear("handle_follow_up_queries", q)
           /\ IF ~Truthy(q)
              THEN /\ added = <<FollowUpPrompt, added[2], RetryNotice>>
                   /\ InFollowUp'
                   /\ context' = context
              ELSE IF ~IsSubstring("exit", Lower(q))
              THEN /\ Len(added) = 4
                   /\ added[3] = Generate(context)
                   /\ added[4].op = "speak"
                   /\ added[4].fn = "handle_follow_up_queries"
                   /\ added[4].text \in generate_contextual_response(Lower(q), context)
                   /\ InFollowUp'
                   /\ context' = context
              ELSE /\ added = <<FollowUpPrompt, added[2],
                                Speak("handle_follow_up_queries", "Exiting follow-up session."),
                                Return("handle_follow_up_queries", None)>>
                   /\ stack' = <<"start">>
                   /\ pc' = Succ("object")

C20_FollowUpTurns == [][C20_Step]_vars

\* a failed transcription and an answered question, and the sub-session still runs
C20_Witness ==
    /\ InFollowUp
    /\ Turns = 2
    /\ \E i, j \in 1..Len(events) :
          /\ i < j
          /\ events[i] = RetryNotice
          /\ events[j].op = "generate"
    /\ \A i \in 1..Len(events) : events[i].op # "return" \/ events[i].fn # "handle_follow_up_queries"

\* a finished call that did not get an answer from the model
GenFailed(call) == ~Truthy(call.ctx) \/ call.reply = Raise

(***************************************************************************)
(* C21, as stated: generate_contextual_response never returns None, gives  *)
(* the model's answer when the context is present and the call succeeds,   *)
(* and gives one and the same apology when the context is absent and when  *)
(* the model call fails.                                                   *)
(***************************************************************************)
C21_AsStated ==
    \A i, j \in 1..Len(gen_trace) :
        /\ gen_trace[i].result # None
        /\ ~GenFailed(gen_trace[i]) => gen_trace[i].result = gen_trace[i].reply
        /\ GenFailed(gen_trace[i]) /\ GenFailed(gen_trace[j])
              => gen_trace[i].result = gen_trace[j].result

(***************************************************************************)
(* C21, corrected: generate_contextual_response never returns None; it     *)
(* gives the model's answer when the context is present and the call       *)
(* succeeds, the notice "There is no context available to respond to your  *)
(* question." when the context is absent (the model is then not asked),    *)
(* and the different notice "Sorry, I couldn't process your request." when *)
(* the model call fails.                                                   *)
(***************************************************************************)
C21_TwoNotices ==
    \A i \in 1..Len(gen_trace) :
        LET call == gen_trace[i] IN
        /\ call.result # None
        /\ Truthy(call.ctx) /\ call.reply # Raise => call.result = call.reply
        /\ Truthy(call.ctx) /\ call.reply = Raise
              => call.result = "Sorry, I couldn't process your request."
        /\ ~Truthy(call.ctx)
              => /\ call.reply = None
                 /\ call.result = "There is no context available to respond to your question."

\* both failures have happened, one call after the other
C21_Witness ==
    /\ gen_pc = "idle"
    /\ \E i, j \in 1..Len(gen_trace) :
          /\ ~Truthy(gen_trace[i].ctx)
          /\ Truthy(gen_trace[j].ctx) /\ gen_trace[j].reply = Raise
          /\ gen_trace[i].result # gen_trace[j].result

\* the frames among the items of a queue history, the None sentinel left out
FramesOf(items) == SelectSeq(items, LAMBDA item : item # None)

(***************************************************************************)
(* C22: every frame the capture thread puts on the queue reaches the       *)
(* describing thread.  What has been taken off the queue is always the     *)
(* beginning of what was put on it, in the same order (first in, first     *)
(* out, nothing twice); the capture loop can always take its next step,    *)
(* however many items wait on the queue; and once both threads have        *)
(* finished, every frame that was put on the queue has been taken off it   *)
(* and has its page in the document.                                       *)
(***************************************************************************)
C22_Delivered ==
    /\ Len(dequeued) <= Len(enqueued)
    /\ dequeued = SubSeq(enqueued, 1, Len(dequeued))
    /\ capture_pc = "read" => ENABLED CaptureFrame
    /\ (capture_pc = "done" /\ describe_pc = "done")
          => /\ FramesOf(dequeued) = FramesOf(enqueued)
             /\ Len(pdf_pages) = Len(FramesOf(enqueued))

\* a step of register_new_face that returned a name
RegisteredStep ==
    /\ face_last'.op = "register"
    /\ face_last'.ret # None
    /\ <<face_log, face_files, face_last>>' # <<face_log, face_files, face_last>>

(***************************************************************************)
(* C23: the log only grows under registration.  Every register_new_face    *)
(* that returns a name appends exactly one line at the end of the log, the *)
(* text "name, imagePath" closed by a newline, and leaves the lines before *)
(* it as they were; it does so whether or not the name is in the log       *)
(* already, so a name registered k times has k lines.                      *)
(***************************************************************************)
C23_Step ==
    RegisteredStep =>
        /\ Len(face_log') = Len(face_log) + 1
        /\ SubSeq(face_log', 1, Len(face_log)) = face_log
        /\ LET line == face_log'[Len(face_log')]
               name == face_last'.ret
           IN  /\ line.name = name
               /\ \E timestamp \in Timestamps :
                     line.text = name \o ", " \o OutputPath(name, timestamp) \o "\n"
               /\ Len(SelectSeq(face_log', LAMBDA l : l.name = name))
                     = Len(SelectSeq(face_log, LAMBDA l : l.name = name)) + 1

C23_AppendOnly == [][C23_Step]_vars

\* "Alice" was registered twice in a row and has two lines
C23_Witness ==
    /\ face_last = [op |-> "register", name |-> "Alice", ret |-> "Alice"]
    /\ Len(face_log) = 2
    /\ face_log[1].name = "Alice"
    /\ face_log[2] = face_log[1]

\* the position of the call named c in a sequence of steps, 0 when it was not made
StepAt(steps, c) ==
    IF \E i \in 1..Len(steps) : steps[i].call = c
    THEN CHOOSE i \in 1..Len(steps) : steps[i].call = c
    ELSE 0

\* register_new_face got no frame, found no face, or got no name
NothingToRegister(steps) ==
    LET frame == StepAt(steps, "get_frame")
        detect == StepAt(steps, "detect_faces")
        voice == StepAt(steps, "get_voice_input")
        manual == StepAt(steps, "input")
    IN  \/ steps[frame].out = None
        \/ (detect # 0 /\ steps[detect].out = "0")
        \/ (voice # 0 /\ manual # 0 /\ ~Truthy(steps[voice].out)
               /\ (~Truthy(steps[manual].out) \/ steps[manual].out = Raise))

(***************************************************************************)
(* C24: a register_new_face that captured no frame, detected no face or    *)
(* got a non-empty name neither from the voice input nor from the manual   *)
(* entry returns None, appends nothing to the log and saves no image.  The *)
(* manual entry is asked for only after the voice input gave nothing, and  *)
(* the name is asked for only after a face was detected.                   *)
(***************************************************************************)
C24_Step ==
    face_last'.op = "register" =>
        LET steps == face_steps'
            detect == StepAt(steps, "detect_faces")
            voice == StepAt(steps, "get_voice_input")
            manual == StepAt(steps, "input")
        IN  /\ NothingToRegister(steps)
                  => /\ face_last'.ret = None
                     /\ face_log' = face_log
                     /\ log_exists' = log_exists
                     /\ face_files' = face_files
                     /\ StepAt(steps, "imwrite") = 0
                     /\ StepAt(steps, "write") = 0
            /\ manual # 0
                  => /\ voice # 0 /\ voice < manual
                     /\ ~Truthy(steps[voice].out)
            /\ voice # 0
                  => /\ detect # 0 /\ detect < voice
                     /\ steps[detect].out # "0"

C24_NothingRegistered == [][C24_Step]_vars

\* a face was detected, neither the voice nor the keyboard gave a name, and the log
\* and the images of an earlier registration are as they were
C24_Witness ==
    /\ face_last.op = "register"
    /\ face_last.ret = None
    /\ face_steps = <<Step("get_frame", "frame"), Step("detect_faces", "1"),
                      Step("get_voice_input", None), Step("input", "")>>
    /\ Len(face_log) = 1
    /\ face_files # {}

(***************************************************************************)
(* C25: whichever handler asked for the frame (scene, object recognition,  *)
(* text extraction, navigation or face registration), the network camera   *)
(* was tried first, and the local camera was opened only after the network *)
(* camera had failed to give a frame.                                      *)
(***************************************************************************)
C25_NetworkCameraFirst ==
    (cam_pc = "done" /\ cam_caller \in FrameUsers)
    => /\ cam_trace # <<>>
       /\ cam_trace[1].device = "esp"
       /\ \A i \in 1..Len(cam_trace) :
             cam_trace[i].device = "local"
                => /\ i = 2
                   /\ cam_trace[1].outcome # "frame"

\* the word "exit" occurs in the utterance u, but never in lowercase
CapitalisedExitOnly(u) == ~Contains("exit", u) /\ Contains("exit", Lower(u))

(***************************************************************************)
(* C26: the two loops test for "exit" differently.  The follow-up loop     *)
(* lowercases what it heard first, so an utterance that has the word only  *)
(* capitalised ("Exit and help") ends the sub-session at once: it is       *)
(* answered by "Exiting follow-up session." and the return.  The top-level *)
(* loop tests the utterance as transcribed, so such an utterance ("Exit",  *)
(* "search Exit") never ends the session: its cycle goes back to           *)
(* listening and "Exiting now." is not spoken.                             *)
(***************************************************************************)
C26_ExitMatching ==
    /\ (CycleDone /\ pc # "loop") => ~CapitalisedExitOnly(user_talk)
    /\ (HeardUtterance /\ events # <<>>
           /\ events[Len(events)] = Speak("start", "Exiting now."))
          => Contains("exit", user_talk)
    /\ \A i \in 1..Len(events) :
          (/\ events[i].op = "hear"
           /\ events[i].fn = "handle_follow_up_queries"
           /\ Truthy(events[i].text)
           /\ CapitalisedExitOnly(events[i].text))
          => /\ i + 2 <= Len(events)
             /\ events[i + 1] = Speak("handle_follow_up_queries", "Exiting follow-up session.")
             /\ events[i + 2] = Return("handle_follow_up_queries", None)

\* "search Exit" at top level: the follow-up session it opened was ended by "Exit and
\* help", and the cycle went back to listening
C26_Witness ==
    /\ pc = "loop"
    /\ user_talk = "search Exit"
    /\ CapitalisedExitOnly(user_talk)
    /\ \E i \in 1..Len(events) :
          /\ events[i] = Hear("handle_follow_up_queries", "Exit and help")
          /\ events[i + 1] = Speak("handle_follow_up_queries", "Exiting follow-up session.")
    /\ \A i \in 1..Len(events) : events[i] # Speak("start", "Exiting now.")

\* None occurs in a queue history at most once, and then as its last item
SentinelLast(items) ==
    \A i \in 1..Len(items) : items[i] = None => i = Len(items)

(***************************************************************************)
(* C27: in one run of the video analysis the None sentinel is put on the   *)
(* queue at most once and is the last item ever put: once it is on the     *)
(* queue the capture thread has finished and puts no frame after it; and   *)
(* the describing thread takes nothing off the queue after it: having      *)
(* taken the sentinel it is writing the document or has finished.          *)
(***************************************************************************)
C27_SentinelLast ==
    /\ SentinelLast(enqueued)
    /\ SentinelLast(dequeued)
    /\ (enqueued # <<>> /\ enqueued[Len(enqueued)] = None) => capture_pc = "done"
    /\ (dequeued # <<>> /\ dequeued[Len(dequeued)] = None)
          => /\ describe_pc \in {"output", "done"}
             /\ frame_queue = <<>>

\* two frames, then the sentinel: all three were put and taken, and the run is over
C27_Witness ==
    /\ video_pc = "returned"
    /\ Len(enqueued) = 3
    /\ enqueued[3] = None
    /\ dequeued = enqueued

\* the None sentinel has been taken off the queue
SentinelTaken == dequeued # <<>> /\ dequeued[Len(dequeued)] = None

(***************************************************************************)
(* C28: the describing thread writes the document at most once and only    *)
(* after it took the sentinel off the queue; the written document has one  *)
(* page for each frame taken before the sentinel, in the order they were   *)
(* taken.  The page of a frame is its description or, when the description *)
(* call failed, the text "Error generating description."; such a failure   *)
(* does not stop the thread, which stops before the sentinel only on a     *)
(* frame that got no page.                                                 *)
(***************************************************************************)
C28_OnePagePerFrame ==
    /\ pdf_written
          => /\ SentinelTaken
             /\ describe_pc = "done"
             /\ Len(pdf_pages) = Len(dequeued) - 1
    /\ Len(pdf_pages) <= Len(FramesOf(dequeued))
    /\ \A i \in 1..Len(pdf_pages) :
          pdf_pages[i] \in {"description of " \o dequeued[i], "Error generating description."}
    /\ (describe_pc = "done" /\ ~SentinelTaken)
          => Len(pdf_pages) < Len(FramesOf(dequeued))
    /\ (describe_pc = "get" /\ ~SentinelTaken)
          => Len(pdf_pages) = Len(FramesOf(dequeued))

\* the description of the first frame failed, the second was described, and the
\* document was written with both pages
C28_Witness ==
    /\ pdf_written
    /\ Len(dequeued) = 3
    /\ pdf_pages = <<"Error generating description.", "description of " \o dequeued[2]>>

\* the text has a character that is not white space, and no comma
CommaLess(text) ==
    /\ \E k \in 1..Len(text) : ~IsSpace(SubSeq(text, k, k))
    /\ \A k \in 1..Len(text) : SubSeq(text, k, k) # ","

(***************************************************************************)
(* C29: a delete_face_registration that finds no log file, or a log with a *)
(* non-blank line that has no comma, returns False and changes nothing:    *)
(* the log keeps its lines, no image file is removed, and no log file is   *)
(* created.                                                                *)
(***************************************************************************)
C29_Step ==
    (/\ face_last'.op = "delete"
     /\ \/ ~log_exists
        \/ \E i \in 1..Len(face_log) : CommaLess(face_log[i].text))
    => /\ face_last'.ret = FALSE
       /\ face_log' = face_log
       /\ face_files' = face_files
       /\ log_exists' = log_exists

C29_UnchangedOnError == [][C29_Step]_vars

\* "Alice" is registered, a line without a comma follows hers in the log, and the
\* delete of "Alice" returned False with her line and her image still there
C29_Witness ==
    /\ face_last = [op |-> "delete", name |-> "Alice", ret |-> FALSE]
    /\ Len(face_log) = 2
    /\ face_log[1].name = "Alice"
    /\ CommaLess(face_log[2].text)
    /\ ParsedPath(face_log[1].text) \in face_files

\* no name occurs twice in the sequence
NoDuplicates(names) ==
    \A i, j \in 1..Len(names) : names[i] = names[j] => i = j

(***************************************************************************)
(* C30: when delete_face_registration(n) has returned True,                *)
(* get_registered_faces() no longer lists n and lists every other name it  *)
(* listed before, each once and in the same order, that of the first       *)
(* registration.  Deleting is idempotent: a delete of n that follows a     *)
(* successful delete of n leaves the log and the image files as they are   *)
(* and returns True too, unless the rewrite of the log file itself raised. *)
(***************************************************************************)
C30_Step ==
    face_last'.op = "delete" =>
        LET n == face_last'.name
            before == get_registered_faces(log_exists, face_log)
            after == get_registered_faces(log_exists', face_log')
        IN  /\ face_last'.ret = TRUE
                  => /\ \A i \in 1..Len(after) : after[i] # n
                     /\ after = SelectSeq(before, LAMBDA name : name # n)
                     /\ NoDuplicates(after)
            /\ (face_last = [op |-> "delete", name |-> n, ret |-> TRUE])
                  => /\ face_log' = face_log
                     /\ face_files' = face_files
                     /\ \/ face_last'.ret = TRUE
                        \/ face_steps'[Len(face_steps')] = Step("write", Raise)

=============================================================================
